---- MODULE Spec2Model ----
(***************************************************************************)
(* Jadwal-Sholat: the next-prayer selector of App.tsx (markNextPrayer and  *)
(* the handlers that call it) and the heading filter of QiblaCompass.      *)
(*                                                                         *)
(* Conventions: an optional JavaScript value (undefined / null / a value)  *)
(* is a sequence of length 0 or 1; an "HH:mm" string is the pair <<h, m>>  *)
(* that split(':').map(Number) yields; a label string is the sequence of   *)
(* its words, and String.includes is a search for a contiguous run of      *)
(* words; angles are whole degrees.                                        *)
(***************************************************************************)
EXTENDS Integers, Sequences, FiniteSets, TLC

VARIABLES
    \* ---- AppContent (src/App.tsx) ----
    data,               \* useState data: the displayed DailyData
    selectedDate,       \* useState selectedDate, as a calendar-day number
    now,                \* the wall clock, new Date(): [day, hours, minutes]
    lastMark,           \* history: arguments and locals of the last markNextPrayer call
    weather,            \* useState weather
    loading,            \* useState loading
    loadingWeather,     \* useState loadingWeather
    error,              \* useState error
    location,           \* useState location
    geo,                \* the mount effect: "unmounted", "requested" or "settled"; "gone" once unmounted
    loads,              \* loadData calls awaiting fetchDailyIslamicData: <<[loc, date], ...>>
    weatherLoads,       \* fetchWeatherData promises not yet settled
    \* ---- QiblaCompass (src/unnamed/part_004) ----
    isOpen,             \* prop isOpen
    rawHeading,         \* useState rawHeading
    smoothHeading,      \* useState smoothHeading (accumulatedHeading)
    lastHeadingRef,     \* useRef lastHeadingRef.current (previousRaw)
    permissionGranted,  \* useState permissionGranted
    needsPermission,    \* useState needsPermission
    compassError,       \* useState error of QiblaCompass
    listener,           \* number of handleOrientation handlers registered on window
    requiresGrant,      \* platform: DeviceOrientationEvent.requestPermission is a function
    samples,            \* history: raw headings processed since the last reset
    sessionNo,          \* history: number of times the compass was opened
    staleAtOpen,        \* history: the filter held a non-zero value when last opened
    qiblaBearing,       \* useState qiblaBearing
    \* ---- second filter run, for the two-run comparison ----
    runB,               \* filter state [last, smooth, raw] of the second run
    samplesB,           \* history: raw headings the second run processed since its reset
    phase,              \* "pre" (runs fed independently) or "synced" (after both reset)
    preDiffered,        \* history: the two runs' filter states differed at the common reset
    \* ---- timers of the mounted views ----
    interval,           \* number of active setInterval timers of the minute effect
    pendingFrames,      \* ids of the animation-frame callbacks AnalogClock has scheduled
    animationFrameId,   \* AnalogClock effect's animationFrameId (0 before the effect runs)
    frameNo,            \* ids requestAnimationFrame has handed out so far
    \* ---- one call of fetchDailyIslamicData (src/services/geminiService.ts) ----
    retryPc,            \* "idle", "attempt" (awaiting generateContent), "delay" or "returned"
    attempt,            \* the loop variable i
    retryParsed,        \* the local parsed: undefined or [city, quote]
    computed,           \* what was computed before the loop: [gregorianDate, prayers, hijri]
    outcomes,           \* history: how each attempt ended
    waited,             \* history: the delays awaited, in ms
    returned,           \* the DailyData the call resolved with, once it has
    \* ---- QiblaCompass props and calculateQibla's other result ----
    observer,           \* the props lat and lng, in whole degrees
    distance,           \* the state distance: a number of km, or NaN
    qiblaDone,          \* the calculateQibla effect has run for the current props
    \* ---- AppContent: whether the data state holds null ----
    dataNull,           \* TRUE when data is null (the record in data is then not shown)
    \* ---- MonthlyCalendar (src/components/MonthlyCalendar.tsx) ----
    calendarOpen,       \* the prop isOpen
    viewDate,           \* the state viewDate: [year, month (0..11), day]
    monthTrail          \* history: the month buttons pressed since the calendar opened

compassVars == <<isOpen, rawHeading, smoothHeading, lastHeadingRef, permissionGranted,
                 needsPermission, compassError, listener, requiresGrant, samples,
                 sessionNo, staleAtOpen, qiblaBearing>>
detVars == <<runB, samplesB, phase, preDiffered>>
markVars == <<data, selectedDate, now, lastMark>>
shellVars == <<weather, loading, loadingWeather, error, location, geo, loads, weatherLoads>>
appVars == <<markVars, shellVars>>
clockVars == <<pendingFrames, animationFrameId, frameNo>>
viewVars == <<interval, clockVars>>
retryVars == <<retryPc, attempt, retryParsed, computed, outcomes, waited, returned>>
qiblaVars == <<observer, distance, qiblaDone>>
calendarVars == <<calendarOpen, viewDate, monthTrail>>
sideVars == <<qiblaVars, calendarVars, dataNull>>
auxVars == <<retryVars, sideVars>>
vars == <<appVars, compassVars, detVars, viewVars, auxVars>>

\* ------------------------------------------------------------------ bounds
MaxSamples == 5    \* samples processed in one compass session
MaxSessions == 2   \* times the compass is opened
MaxPre == 1        \* samples each run is fed before the common reset
MaxJoint == 3      \* samples fed to both runs after the common reset
MaxEntries == 2    \* entries of a generated schedule
MaxDay == 1        \* calendar days the clock runs through, from day 0
MaxWeatherLoads == 1  \* weather requests that may be outstanding at once
MaxFrames == 3     \* animation-frame callbacks scheduled in one run
MaxViewSamples == 1  \* samples per session in the run of the views' lifecycles

\* ------------------------------------------------------------ optional values
Undefined == << >>
Some(v) == << v >>
IsSet(o) == o # << >>
Val(o) == o[1]

Abs(x) == IF x < 0 THEN -x ELSE x

\* ------------------------------------------------------------ constants.ts
LABEL_FAJR == <<"al-fajr">>
LABEL_SHURUQ == <<"al-shuruq">>
LABEL_DUHA == <<"al-duha">>
LABEL_DHUHR == <<"al-dhuhr">>
LABEL_ASR == <<"al-asr">>
LABEL_MAGHRIB == <<"al-maghrib">>
LABEL_ISHA == <<"al-isha">>
LABEL_MIDNIGHT == <<"nisf", "al-layl">>
LABEL_LASTTHIRD == <<"al-thuluth", "al-akhir">>

\* A PrayerTime whose optional isNext is still undefined.
Entry(name, nameArabic, time) ==
    [name |-> name, nameArabic |-> nameArabic, time |-> time, isNext |-> Undefined]

FALLBACK_DATA ==
    [gregorianDate |-> "Jumat, 2 Januari 2026",
     hijri |-> [day |-> 13, month |-> "Rajab", year |-> 1447],
     prayers |-> << Entry("Fajr", LABEL_FAJR, <<4, 15>>),
                    Entry("Shuruq", LABEL_SHURUQ, <<5, 35>>),
                    Entry("Duha", LABEL_DUHA, <<6, 0>>),
                    Entry("Dhuhr", LABEL_DHUHR, <<11, 55>>),
                    Entry("Asr", LABEL_ASR, <<15, 20>>),
                    Entry("Maghrib", LABEL_MAGHRIB, <<18, 5>>),
                    Entry("Isha", LABEL_ISHA, <<19, 20>>),
                    Entry("Midnight", LABEL_MIDNIGHT, <<23, 45>>),
                    Entry("LastThird", LABEL_LASTTHIRD, <<1, 15>>) >>,
     city |-> "Jakarta (Default)",
     quote |-> "Memuat data terkini..."]

\* ------------------------------------------------------------ markNextPrayer
\* String.prototype.toLowerCase on the names that occur.
ToLowerCase(name) ==
    CASE name \in {"Maghrib", "MAGHRIB", "maghrib"} -> "maghrib"
      [] name \in {"Isha", "isha"} -> "isha"
      [] name = "Fajr" -> "fajr"
      [] name = "Shuruq" -> "shuruq"
      [] name = "Duha" -> "duha"
      [] name = "Dhuhr" -> "dhuhr"
      [] name = "Asr" -> "asr"
      [] name = "Midnight" -> "midnight"
      [] name = "LastThird" -> "lastthird"
      [] name = "Sunset" -> "sunset"
      [] name = "Night" -> "night"
      [] OTHER -> name

\* String.prototype.includes: sub occurs in s as a contiguous run.
Includes(s, sub) ==
    \E i \in 1..(Len(s) - Len(sub) + 1) : SubSeq(s, i, i + Len(sub) - 1) = sub

\* const [h, m] = time.split(':').map(Number); h * 60 + m
ParseMinutes(time) == time[1] * 60 + time[2]

\* The predicate of data.prayers.find(...) for Maghrib.
IsMaghribEntry(p) ==
    ToLowerCase(p.name) = "maghrib" \/ Includes(p.nameArabic, LABEL_MAGHRIB)

\* Array.prototype.find: the first entry that satisfies the predicate, if any.
FindMaghrib(prayers) ==
    LET hits == {i \in 1..Len(prayers) : IsMaghribEntry(prayers[i])}
    IN  IF hits = {} THEN Undefined
        ELSE Some(prayers[CHOOSE i \in hits : \A j \in hits : i <= j])

DefaultMaghribNoon == 12 * 60

DefaultMaghribMinutes == 18 * 60

MaghribMinutes(prayers) ==
    LET maghrib == FindMaghrib(prayers)
    IN  IF IsSet(maghrib) THEN ParseMinutes(Val(maghrib).time)
        ELSE DefaultMaghribMinutes

IsNightPrayer(p) ==
    \/ p.name \in {"Midnight", "LastThird", "Isha"}
    \/ \E n \in {LABEL_MIDNIGHT, LABEL_LASTTHIRD, LABEL_ISHA} : Includes(p.nameArabic, n)

NightBeforeOrAt(prayerMinutes, maghribMinutes) == prayerMinutes <= maghribMinutes

NightBefore(prayerMinutes, maghribMinutes) == prayerMinutes < maghribMinutes

PrayerMinutesHalfDay(p, maghribMinutes) ==
    LET prayerMinutes == ParseMinutes(p.time)
    IN  IF IsNightPrayer(p) /\ NightBefore(prayerMinutes, maghribMinutes)
        THEN prayerMinutes + 12 * 60
        ELSE prayerMinutes

\* prayerMinutes of one entry, after the night adjustment.
PrayerMinutes(p, maghribMinutes) ==
    LET prayerMinutes == ParseMinutes(p.time)
    IN  IF IsNightPrayer(p) /\ NightBefore(prayerMinutes, maghribMinutes)
        THEN prayerMinutes + 24 * 60
        ELSE prayerMinutes

CloserThanOrEqual(diff, minDiff) == ~IsSet(minDiff) \/ diff <= Val(minDiff)

\* if (diff < minDiff), minDiff starting at Infinity (undefined here).
CloserThan(diff, minDiff) == ~IsSet(minDiff) \/ diff < Val(minDiff)

IsAheadOrNow(prayerMinutes, currentMinutes) == prayerMinutes >= currentMinutes

\* if (prayerMinutes > currentMinutes)
IsAhead(prayerMinutes, currentMinutes) == prayerMinutes > currentMinutes

RECURSIVE ScanPrayers(_, _, _, _, _)
\* data.prayers.forEach from position i on; acc = [nextPrayerIndex, minDiff].
ScanPrayers(prayers, i, currentMinutes, maghribMinutes, acc) ==
    IF i > Len(prayers) THEN acc
    ELSE LET idx == i - 1
             prayerMinutes == PrayerMinutes(prayers[i], maghribMinutes)
             diff == prayerMinutes - currentMinutes
             next == IF IsAhead(prayerMinutes, currentMinutes)
                        /\ CloserThan(diff, acc.minDiff)
                     THEN [nextPrayerIndex |-> idx, minDiff |-> Some(diff)]
                     ELSE acc
         IN  ScanPrayers(prayers, i + 1, currentMinutes, maghribMinutes, next)

WrapIndexMissing(nextPrayerIndex) == nextPrayerIndex

\* if (nextPrayerIndex === -1) nextPrayerIndex = 0
WrapIndex(nextPrayerIndex) == IF nextPrayerIndex = -1 THEN 0 ELSE nextPrayerIndex

NextPrayerIndex(prayers, nw) ==
    LET currentMinutes == nw.hours * 60 + nw.minutes
        acc == ScanPrayers(prayers, 1, currentMinutes, MaghribMinutes(prayers),
                           [nextPrayerIndex |-> -1, minDiff |-> Undefined])
    IN  WrapIndex(acc.nextPrayerIndex)

\* targetDate.toDateString() === now.toDateString()
IsToday(targetDate, nw) == targetDate = nw.day

ClearFlagsSkipped(d) == d

ClearFlagsReversed(d) ==
    [d EXCEPT !.prayers = [i \in 1..Len(d.prayers) |->
                              [d.prayers[Len(d.prayers) + 1 - i] EXCEPT !.isNext = Some(FALSE)]]]

\* The early return for a day other than today.
ClearFlags(d) ==
    [d EXCEPT !.prayers = [i \in 1..Len(d.prayers) |->
                              [d.prayers[i] EXCEPT !.isNext = Some(FALSE)]]]

FlagUpTo(idx, nextPrayerIndex) == idx <= nextPrayerIndex

\* isNext: idx === nextPrayerIndex
FlagAt(idx, nextPrayerIndex) == idx = nextPrayerIndex

markNextPrayer(d, targetDate, nw) ==
    IF ~IsToday(targetDate, nw) THEN ClearFlags(d)
    ELSE LET nextPrayerIndex == NextPrayerIndex(d.prayers, nw)
         IN  [d EXCEPT !.prayers = [i \in 1..Len(d.prayers) |->
                 [d.prayers[i] EXCEPT !.isNext = Some(FlagAt(i - 1, nextPrayerIndex))]]]

\* What the call read and computed: its arguments, the clock, the boundary and
\* the adjusted minutes of every entry.
MarkRecord(d, targetDate, nw) ==
    IF ~IsToday(targetDate, nw)
    THEN [targetDate |-> targetDate, now |-> nw,
          maghribMinutes |-> Undefined, prayerMinutes |-> << >>]
    ELSE [targetDate |-> targetDate, now |-> nw,
          maghribMinutes |-> Some(MaghribMinutes(d.prayers)),
          prayerMinutes |-> [i \in 1..Len(d.prayers) |->
                                PrayerMinutes(d.prayers[i], MaghribMinutes(d.prayers))]]

\* ------------------------------------------------- the selector on drawn inputs
\* (name, nameArabic) of the entries drawn: a plain day entry, Maghrib, an entry
\* that is Maghrib by its upper-case name alone, one that is Maghrib by an embedded
\* label alone, Isha, and an entry that is a night prayer by an embedded label alone.
EntryKinds ==
    { <<"Fajr", LABEL_FAJR>>,
      <<"Maghrib", LABEL_MAGHRIB>>,
      <<"MAGHRIB", << >> >>,
      <<"Sunset", <<"salat">> \o LABEL_MAGHRIB>>,
      <<"Isha", LABEL_ISHA>>,
      <<"Night", <<"salat">> \o LABEL_MIDNIGHT>> }
EntryTimes == { <<1, 15>>, <<18, 0>>, <<18, 5>>, <<23, 45>> }
EntryPool == { Entry(k[1], k[2], t) : k \in EntryKinds, t \in EntryTimes }
GeneratedSchedules == UNION { [1..n -> EntryPool] : n \in 1..MaxEntries }

\* The schedule of the specification's example.
ExampleSchedule ==
    << Entry("Maghrib", LABEL_MAGHRIB, <<18, 0>>),
       Entry("Isha", LABEL_ISHA, <<19, 20>>),
       Entry("Midnight", LABEL_MIDNIGHT, <<23, 45>>),
       Entry("LastThird", LABEL_LASTTHIRD, <<1, 15>>) >>

SchedulePool == GeneratedSchedules \cup {FALLBACK_DATA.prayers, ExampleSchedule}

ClockTimes == { <<1, 0>>, <<20, 0>>, <<23, 45>> }
Clock(day, t) == [day |-> day, hours |-> t[1], minutes |-> t[2]]
Clocks == { Clock(day, t) : day \in 0..MaxDay, t \in ClockTimes }
Later(a, b) ==
    \/ b.day > a.day
    \/ b.day = a.day /\ b.hours * 60 + b.minutes > a.hours * 60 + a.minutes

\* The useState initial values of AppContent, before the mount effect.
\* ------------------------------------------------------------------ timers
\* setInterval and clearInterval, on the number of active minute intervals.
SetInterval(n) == n + 1
ClearInterval(n) == IF n > 0 THEN n - 1 ELSE 0

RerunIntervalEffectLeaks(n) == SetInterval(n)

\* The minute effect re-running after data or selectedDate changed: the cleanup
\* of the previous run, then the effect body.
RerunIntervalEffect(n) == SetInterval(ClearInterval(n))

\* requestAnimationFrame and cancelAnimationFrame, on the set of scheduled ids.
RequestAnimationFrame(pending, id) == pending \cup {id}
CancelAnimationFrame(pending, id) == pending \ {id}

\* AnalogClock's effect body: the first frame is requested and its id kept.
ClockMount ==
    /\ frameNo' = frameNo + 1
    /\ animationFrameId' = frameNo + 1
    /\ pendingFrames' = RequestAnimationFrame(pendingFrames, frameNo + 1)

InitViews ==
    /\ interval = 0
    /\ pendingFrames = {}
    /\ animationFrameId = 0
    /\ frameNo = 0

\* No call of fetchDailyIslamicData is being followed.
InitRetryIdle ==
    /\ retryPc = "idle"
    /\ attempt = 0
    /\ retryParsed = Undefined
    /\ computed = Undefined
    /\ outcomes = << >>
    /\ waited = << >>
    /\ returned = Undefined

\* QiblaCompass gets DEFAULT_LOCATION's coordinates; its effect is not followed.
InitQiblaIdle ==
    /\ observer = [lat |-> -6, lng |-> 107]
    /\ distance = Some(0)
    /\ qiblaDone = FALSE

\* MonthlyCalendar is closed; viewDate holds the date of its first render.
InitCalendarIdle ==
    /\ calendarOpen = FALSE
    /\ viewDate = [year |-> 2026, month |-> 0, day |-> 1]
    /\ monthTrail = << >>

InitSide == InitQiblaIdle /\ InitCalendarIdle /\ dataNull = FALSE

InitAux == InitRetryIdle /\ InitSide

InitShell ==
    /\ weather = Undefined
    /\ loading = TRUE
    /\ loadingWeather = TRUE
    /\ error = Undefined
    /\ location = Undefined
    /\ geo = "unmounted"
    /\ loads = << >>
    /\ weatherLoads = 0

InitAppIdle ==
    /\ data = FALLBACK_DATA
    /\ selectedDate = 0
    /\ now = Clock(0, <<1, 0>>)
    /\ lastMark = Undefined
    /\ InitShell


\* ------------------------------------------------------------ QiblaCompass
\* Orientation events: webkitCompassHeading (absent on non-WebKit), absolute, alpha.
WebkitValues == {Undefined, Some(0), Some(10), Some(350)}
AlphaValues == {Undefined, Some(0), Some(90), Some(180), Some(270)}
OrientationEvents ==
    [webkitCompassHeading : WebkitValues, absolute : BOOLEAN, alpha : AlphaValues]

\* JavaScript truthiness of e.webkitCompassHeading: undefined and 0 are falsy.
Truthy(o) == IsSet(o) /\ Val(o) # 0

\* handleOrientation, source selection (the value of `compass`).
SelectCompass(e) ==
    IF Truthy(e.webkitCompassHeading) THEN Val(e.webkitCompassHeading)
    ELSE IF e.absolute /\ IsSet(e.alpha) THEN Abs(Val(e.alpha) - 360)
    ELSE IF IsSet(e.alpha) THEN Abs(Val(e.alpha) - 360)
    ELSE 0

ShortestDeltaUncorrected(d) == d

\* The two sequential corrections of delta.
ShortestDelta(d) ==
    LET d1 == IF d < -180 THEN d + 360 ELSE d
    IN  IF d1 > 180 THEN d1 - 360 ELSE d1

AccumulateWrapped(prev, delta) == (prev + delta) % 360

\* setSmoothHeading(prev => prev + delta)
Accumulate(prev, delta) == prev + delta

handleOrientationKeepsRef(f, e) ==
    LET compass == SelectCompass(e)
        delta == ShortestDelta(compass - f.last)
    IN  [raw |-> compass, smooth |-> Accumulate(f.smooth, delta), last |-> f.last]

\* handleOrientation as a transform of the filter state [last, smooth, raw].
handleOrientation(f, e) ==
    LET compass == SelectCompass(e)
        currentRaw == compass
        previousRaw == f.last
        delta == ShortestDelta(currentRaw - previousRaw)
    IN  [raw |-> compass, smooth |-> Accumulate(f.smooth, delta), last |-> currentRaw]

ResetFilterKeepsSmooth(f) == [last |-> 0, smooth |-> f.smooth, raw |-> 0]

ResetFilterKeepsLast(f) == [last |-> f.last, smooth |-> 0, raw |-> 0]

\* The reset at the head of the sensor effect.
ResetFilter(f) == [last |-> 0, smooth |-> 0, raw |-> 0]

Filter == [last |-> lastHeadingRef, smooth |-> smoothHeading, raw |-> rawHeading]

\* calculateQibla's bearing: toDeg(atan2(y, x)), a value in [-180, 180] here in
\* whole degrees, normalised by (bearing + 360) % 360.
calculateQibla(atan2Degrees) == (atan2Degrees + 360) % 360

DialFollowsHeading == smoothHeading

\* dialRotation and needleRotation are derived at render from smoothHeading.
dialRotation == -smoothHeading

needleRotation == qiblaBearing - smoothHeading

\* window.addEventListener / removeEventListener with the effect run's handler;
\* removing a handler that was never registered does nothing.
AddEventListener(n) == n + 1

RemoveEventListenerSkipped(n, registered) == n

RemoveEventListener(n, registered) == IF registered /\ n > 0 THEN n - 1 ELSE n

InitCompassOn(grant) ==
    /\ isOpen = FALSE
    /\ rawHeading = 0
    /\ smoothHeading = 0
    /\ lastHeadingRef = 0
    /\ permissionGranted = FALSE
    /\ needsPermission = FALSE
    /\ compassError = Undefined
    /\ listener = 0
    /\ requiresGrant = grant
    /\ samples = << >>
    /\ sessionNo = 0
    /\ staleAtOpen = FALSE
    /\ qiblaBearing = calculateQibla(-65)    \* the mount effect, for lat -6.2088, lng 106.8456

InitCompass == \E grant \in BOOLEAN : InitCompassOn(grant)

InitDet ==
    /\ runB = [last |-> 0, smooth |-> 0, raw |-> 0]
    /\ samplesB = << >>
    /\ phase = "pre"
    /\ preDiffered = FALSE

\* isOpen becomes true: the sensor effect runs (reset, permission check, listener).
OpenCompass ==
    /\ ~isOpen
    /\ sessionNo < MaxSessions
    /\ isOpen' = TRUE
    /\ LET f == ResetFilter(Filter)
       IN  /\ lastHeadingRef' = f.last
           /\ smoothHeading' = f.smooth
           /\ rawHeading' = f.raw
    /\ IF requiresGrant
       THEN /\ needsPermission' = TRUE
            /\ UNCHANGED <<permissionGranted, listener>>
       ELSE /\ permissionGranted' = TRUE
            /\ listener' = AddEventListener(listener)
            /\ UNCHANGED needsPermission
    /\ samples' = << >>
    /\ sessionNo' = sessionNo + 1
    /\ staleAtOpen' = (lastHeadingRef # 0 \/ smoothHeading # 0 \/ rawHeading # 0)
    /\ UNCHANGED <<compassError, requiresGrant, qiblaBearing>>
    /\ UNCHANGED <<appVars, detVars, viewVars>>
    /\ UNCHANGED auxVars

\* isOpen becomes false: the effect's cleanup removes the listener.
CloseCompass ==
    /\ isOpen
    /\ isOpen' = FALSE
    /\ listener' = RemoveEventListener(listener, ~requiresGrant)
    /\ UNCHANGED <<rawHeading, smoothHeading, lastHeadingRef, permissionGranted,
                   needsPermission, compassError, requiresGrant, samples, sessionNo,
                   staleAtOpen, qiblaBearing>>
    /\ UNCHANGED <<appVars, detVars, viewVars>>
    /\ UNCHANGED auxVars

\* A deviceorientation event is delivered to the registered handler.
OrientationSample(e) ==
    /\ listener > 0
    /\ Len(samples) < MaxSamples
    /\ LET f == handleOrientation(Filter, e)
       IN  /\ rawHeading' = f.raw
           /\ smoothHeading' = f.smooth
           /\ lastHeadingRef' = f.last
           /\ samples' = Append(samples, f.raw)
    /\ UNCHANGED <<isOpen, permissionGranted, needsPermission, compassError, listener,
                   requiresGrant, sessionNo, staleAtOpen,
                   qiblaBearing>>
    /\ UNCHANGED <<appVars, detVars, viewVars>>
    /\ UNCHANGED auxVars

\* requestAccess, from the permission overlay's button.
requestAccess(response) ==
    /\ isOpen
    /\ needsPermission /\ ~permissionGranted
    /\ requiresGrant
    /\ IF response = "granted"
       THEN /\ permissionGranted' = TRUE
            /\ needsPermission' = FALSE
            /\ UNCHANGED compassError
       ELSE /\ compassError' = Some(IF response = "throws"
                                     THEN "Gagal meminta izin sensor."
                                     ELSE "Izin akses sensor ditolak.")
            /\ UNCHANGED <<permissionGranted, needsPermission>>
    /\ UNCHANGED <<isOpen, rawHeading, smoothHeading, lastHeadingRef, listener,
                   requiresGrant, samples, sessionNo, staleAtOpen,
                   qiblaBearing>>
    /\ UNCHANGED <<appVars, detVars, viewVars>>
    /\ UNCHANGED auxVars

NextCompass ==
    \/ OpenCompass
    \/ CloseCompass
    \/ \E e \in OrientationEvents : OrientationSample(e)
    \/ \E response \in {"granted", "denied", "throws"} : requestAccess(response)

InitCompassSpec == InitAppIdle /\ InitCompass /\ InitDet /\ InitViews /\ InitAux

SpecCompass == InitCompassSpec /\ [][NextCompass]_vars

\* ------------------------------------------------- two runs of the filter
\* Run A is the component's own filter state; run B is a second copy of it.
\* Before the common reset each run is fed its own samples.
DetSampleA(e) ==
    /\ phase = "pre"
    /\ Len(samples) < MaxPre
    /\ LET f == handleOrientation(Filter, e)
       IN  /\ rawHeading' = f.raw
           /\ smoothHeading' = f.smooth
           /\ lastHeadingRef' = f.last
           /\ samples' = Append(samples, f.raw)
    /\ UNCHANGED <<isOpen, permissionGranted, needsPermission, compassError, listener,
                   requiresGrant, sessionNo, staleAtOpen,
                   qiblaBearing>>
    /\ UNCHANGED <<appVars, detVars, viewVars>>
    /\ UNCHANGED auxVars

DetSampleB(e) ==
    /\ phase = "pre"
    /\ Len(samplesB) < MaxPre
    /\ runB' = handleOrientation(runB, e)
    /\ samplesB' = Append(samplesB, runB'.raw)
    /\ UNCHANGED <<appVars, compassVars, phase, preDiffered, viewVars>>
    /\ UNCHANGED auxVars

\* Both runs pass through the reset of the sensor effect.
DetReset ==
    /\ phase = "pre"
    /\ phase' = "synced"
    /\ LET f == ResetFilter(Filter)
       IN  /\ lastHeadingRef' = f.last
           /\ smoothHeading' = f.smooth
           /\ rawHeading' = f.raw
    /\ runB' = ResetFilter(runB)
    /\ samples' = << >>
    /\ samplesB' = << >>
    /\ preDiffered' = (Filter # runB)
    /\ UNCHANGED <<isOpen, permissionGranted, needsPermission, compassError, listener,
                   requiresGrant, sessionNo, staleAtOpen,
                   qiblaBearing>>
    /\ UNCHANGED <<appVars, viewVars>>
    /\ UNCHANGED auxVars

\* After the reset both runs are fed the same event.
DetJointSample(e) ==
    /\ phase = "synced"
    /\ Len(samples) < MaxJoint
    /\ LET f == handleOrientation(Filter, e)
       IN  /\ rawHeading' = f.raw
           /\ smoothHeading' = f.smooth
           /\ lastHeadingRef' = f.last
           /\ samples' = Append(samples, f.raw)
    /\ runB' = handleOrientation(runB, e)
    /\ samplesB' = Append(samplesB, runB'.raw)
    /\ UNCHANGED <<isOpen, permissionGranted, needsPermission, compassError, listener,
                   requiresGrant, sessionNo, staleAtOpen, qiblaBearing,
                   phase, preDiffered>>
    /\ UNCHANGED <<appVars, viewVars>>
    /\ UNCHANGED auxVars

NextDet ==
    \/ \E e \in OrientationEvents : DetSampleA(e)
    \/ \E e \in OrientationEvents : DetSampleB(e)
    \/ DetReset
    \/ \E e \in OrientationEvents : DetJointSample(e)

SpecDet == InitCompassSpec /\ [][NextDet]_vars

\* ----------------------------------------- the selector on drawn inputs, run
InitSel ==
    /\ data \in { [FALLBACK_DATA EXCEPT !.prayers = s] : s \in SchedulePool }
    /\ selectedDate \in 0..MaxDay
    /\ now \in { Clock(0, t) : t \in ClockTimes }
    /\ lastMark = Undefined
    /\ InitShell
    /\ InitCompassOn(FALSE)
    /\ InitDet
    /\ InitViews
    /\ InitAux

\* setData(markNextPrayer(result, date)) when the drawn schedule arrives.
SelLoadComplete ==
    /\ ~IsSet(lastMark)
    /\ data' = markNextPrayer(data, selectedDate, now)
    /\ lastMark' = Some(MarkRecord(data, selectedDate, now))
    /\ UNCHANGED <<selectedDate, now, shellVars, compassVars, detVars, viewVars>>
    /\ UNCHANGED auxVars

\* The interval callback, at a later reading of the clock:
\* setData(prev => prev ? markNextPrayer(prev, selectedDate) : null)
SelMinuteTick(t) ==
    /\ IsSet(lastMark)
    /\ Later(now, t)
    /\ now' = t
    /\ data' = markNextPrayer(data, selectedDate, t)
    /\ lastMark' = Some(MarkRecord(data, selectedDate, t))
    /\ UNCHANGED <<selectedDate, shellVars, compassVars, detVars, viewVars>>
    /\ UNCHANGED auxVars

NextSel ==
    \/ SelLoadComplete
    \/ \E t \in Clocks : SelMinuteTick(t)

SpecSel == InitSel /\ [][NextSel]_vars

\* ------------------------------------------------------------ AppContent
DEFAULT_LOCATION == "Jakarta"
GpsLocations == {"GPS"}

\* Intl.DateTimeFormat('id-ID', ...).format(dateToUse); day 0 is 1 January 2026.
GregorianLatin(date) ==
    CASE date = -2 -> "Selasa, 30 Desember 2025"
      [] date = -1 -> "Rabu, 31 Desember 2025"
      [] date = 0 -> "Kamis, 1 Januari 2026"
      [] date = 1 -> "Jumat, 2 Januari 2026"
      [] date = 2 -> "Sabtu, 3 Januari 2026"
      [] date = 3 -> "Minggu, 4 Januari 2026"
      [] date = 4 -> "Senin, 5 Januari 2026"
      [] OTHER -> "Selasa, 6 Januari 2026"

\* getHijriDataLocally within Rajab 1447 (1 January 2026 is 12 Rajab).
getHijriDataLocally(date) == [day |-> 12 + date, month |-> "Rajab", year |-> 1447]

CalculatedPrayersNightFirst(times) ==
    << Entry("Fajr", LABEL_FAJR, times[1]),
       Entry("Shuruq", LABEL_SHURUQ, times[2]),
       Entry("Duha", LABEL_DUHA, times[3]),
       Entry("Dhuhr", LABEL_DHUHR, times[4]),
       Entry("Asr", LABEL_ASR, times[5]),
       Entry("Isha", LABEL_ISHA, times[7]),
       Entry("Maghrib", LABEL_MAGHRIB, times[6]),
       Entry("Midnight", LABEL_MIDNIGHT, times[8]),
       Entry("LastThird", LABEL_LASTTHIRD, times[9]) >>

\* Schedules the prayer-time library yields: calculatedPrayers with the nine
\* names in their fixed order and the times of two places.
CalculatedPrayers(times) ==
    << Entry("Fajr", LABEL_FAJR, times[1]),
       Entry("Shuruq", LABEL_SHURUQ, times[2]),
       Entry("Duha", LABEL_DUHA, times[3]),
       Entry("Dhuhr", LABEL_DHUHR, times[4]),
       Entry("Asr", LABEL_ASR, times[5]),
       Entry("Maghrib", LABEL_MAGHRIB, times[6]),
       Entry("Isha", LABEL_ISHA, times[7]),
       Entry("Midnight", LABEL_MIDNIGHT, times[8]),
       Entry("LastThird", LABEL_LASTTHIRD, times[9]) >>
LibraryTimes ==
    { << <<4, 20>>, <<5, 40>>, <<6, 0>>, <<11, 58>>, <<15, 22>>, <<18, 0>>,
         <<19, 20>>, <<23, 10>>, <<1, 0>> >>,
      << <<3, 0>>, <<4, 50>>, <<5, 10>>, <<13, 0>>, <<17, 10>>, <<21, 5>>,
         <<23, 45>>, <<0, 2>>, <<1, 1>> >> }

\* The part of fetchDailyIslamicData that runs before the text provider is
\* awaited: the schedule, the Gregorian string and the Hijri date (which moves
\* to the next day once today's Maghrib has passed).
ComputedPart(date, times, nw) ==
    LET isToday == date = nw.day
        maghrib == times[6][1] * 60 + times[6][2]
        hijriCalcDate == IF isToday /\ nw.hours * 60 + nw.minutes >= maghrib
                         THEN date + 1 ELSE date
    IN  [gregorianDate |-> GregorianLatin(date),
         prayers |-> CalculatedPrayers(times),
         hijri |-> getHijriDataLocally(hijriCalcDate)]

fallbackCity == "Mode Hemat Data (Offline)"
fallbackQuote == "Allah tidak membebani seseorang melainkan sesuai dengan kesanggupannya."
TextOutcomes == { Undefined, Some([city |-> "Jakarta Selatan, Indonesia", quote |-> "Hadith"]) }

\* The DailyData fetchDailyIslamicData resolves with.
FetchedData(part, parsed) ==
    [gregorianDate |-> part.gregorianDate,
     prayers |-> part.prayers,
     hijri |-> part.hijri,
     city |-> IF IsSet(parsed) THEN Val(parsed).city ELSE fallbackCity,
     quote |-> IF IsSet(parsed) THEN Val(parsed).quote ELSE fallbackQuote]

StartLoadAtDefault(loc, date, part, seenWeather) ==
    /\ loading' = TRUE
    /\ loadingWeather' = TRUE
    /\ weatherLoads' = weatherLoads + 1
    /\ error' = Undefined
    /\ loads' = Append(loads, [loc |-> DEFAULT_LOCATION, date |-> date, part |-> part])

\* loadData up to its await: part is what fetchDailyIslamicData computed, or
\* undefined when it threw; seenWeather is the `weather` the closure holds.
StartLoad(loc, date, part, seenWeather) ==
    /\ loading' = TRUE
    /\ IF ~IsSet(seenWeather)
       THEN /\ loadingWeather' = TRUE
            /\ weatherLoads' = weatherLoads + 1
       ELSE UNCHANGED <<loadingWeather, weatherLoads>>
    /\ error' = Undefined
    /\ loads' = Append(loads, [loc |-> loc, date |-> date, part |-> part])

LoadParts(date) ==
    {Undefined} \cup { Some(ComputedPart(date, times, now)) : times \in LibraryTimes }

\* The mount effect where navigator.geolocation is missing.
MountUnsupported ==
    /\ geo = "unmounted"
    /\ geo' = "settled"
    /\ location' = Some(DEFAULT_LOCATION)
    /\ selectedDate' = now.day
    /\ \E part \in LoadParts(now.day) :
          StartLoad(DEFAULT_LOCATION, now.day, part, Undefined)
    /\ UNCHANGED <<data, now, lastMark, weather, compassVars, detVars>>
    /\ interval' = RerunIntervalEffect(SetInterval(interval))
    /\ ClockMount
    /\ UNCHANGED auxVars

\* The mount effect calling getCurrentPosition.
MountRequest ==
    /\ geo = "unmounted"
    /\ geo' = "requested"
    /\ UNCHANGED <<markVars, weather, loading, loadingWeather, error, location, loads,
                   weatherLoads, compassVars, detVars>>
    /\ interval' = SetInterval(interval)
    /\ ClockMount
    /\ UNCHANGED auxVars

\* getCurrentPosition's success callback.
GeoSuccess(loc) ==
    /\ geo = "requested"
    /\ geo' = "settled"
    /\ location' = Some(loc)
    /\ selectedDate' = now.day
    /\ \E part \in LoadParts(now.day) : StartLoad(loc, now.day, part, Undefined)
    /\ UNCHANGED <<data, now, lastMark, weather, compassVars, detVars, clockVars>>
    /\ interval' = RerunIntervalEffect(interval)
    /\ UNCHANGED auxVars

\* getCurrentPosition's error callback.
GeoError ==
    /\ geo = "requested"
    /\ geo' = "settled"
    /\ location' = Some(DEFAULT_LOCATION)
    /\ selectedDate' = now.day
    /\ \E part \in LoadParts(now.day) :
          StartLoad(DEFAULT_LOCATION, now.day, part, Undefined)
    /\ UNCHANGED <<data, now, lastMark, weather, compassVars, detVars, clockVars>>
    /\ interval' = RerunIntervalEffect(interval)
    /\ UNCHANGED auxVars

CatchStoresNullValue == TRUE

\* Whether the catch block of loadData leaves data null: it stores
\* markNextPrayer(FALLBACK_DATA, date), an object.
CatchStoresNull == FALSE

\* The rest of loadData once fetchDailyIslamicData settles: try, catch, finally.
LoadSettles(i, parsed) ==
    /\ i \in 1..Len(loads)
    /\ LET load == loads[i]
       IN  IF IsSet(load.part)
           THEN LET result == FetchedData(Val(load.part), parsed)
                IN  /\ data' = markNextPrayer(result, load.date, now)
                    /\ dataNull' = FALSE
                    /\ lastMark' = Some(MarkRecord(result, load.date, now))
                    /\ UNCHANGED error
           ELSE /\ error' = Some("Gagal memuat data jadwal sholat. Menggunakan data fallback.")
                /\ data' = markNextPrayer(FALLBACK_DATA, load.date, now)
                /\ dataNull' = CatchStoresNull
                /\ lastMark' = Some(MarkRecord(FALLBACK_DATA, load.date, now))
    /\ loading' = FALSE
    /\ loads' = [j \in 1..(Len(loads) - 1) |-> IF j < i THEN loads[j] ELSE loads[j + 1]]
    /\ UNCHANGED <<selectedDate, now, weather, loadingWeather, location, geo,
                   weatherLoads, compassVars, detVars, clockVars>>
    /\ interval' = IF dataNull' THEN ClearInterval(interval)
                   ELSE RerunIntervalEffect(interval)
    /\ UNCHANGED <<retryVars, qiblaVars, calendarVars>>

WeatherSettlesWithoutFinally(ok) ==
    /\ weatherLoads > 0
    /\ weatherLoads' = weatherLoads - 1
    /\ weather' = IF ok THEN Some("WeatherData") ELSE weather
    /\ loadingWeather' = IF ok THEN FALSE ELSE loadingWeather
    /\ UNCHANGED <<markVars, loading, error, location, geo, loads, compassVars, detVars,
                   viewVars, auxVars>>

\* fetchWeatherData settles: then / catch, finally.
WeatherSettles(ok) ==
    /\ weatherLoads > 0
    /\ weatherLoads' = weatherLoads - 1
    /\ weather' = IF ok THEN Some("WeatherData") ELSE weather
    /\ loadingWeather' = FALSE
    /\ UNCHANGED <<markVars, loading, error, location, geo, loads, compassVars, detVars, viewVars>>
    /\ UNCHANGED auxVars

changeDayNeverDisabled(days) ==
    /\ selectedDate + days >= 0 - 1
    /\ selectedDate + days <= MaxDay + 1
    /\ IsSet(weather) \/ ~IsSet(location) \/ weatherLoads < MaxWeatherLoads
    /\ selectedDate' = selectedDate + days
    /\ IF IsSet(location)
       THEN \E part \in LoadParts(selectedDate + days) :
               StartLoad(Val(location), selectedDate + days, part, weather)
       ELSE UNCHANGED <<loading, loadingWeather, error, loads, weatherLoads>>
    /\ UNCHANGED <<data, now, lastMark, weather, location, geo, compassVars, detVars, clockVars>>
    /\ interval' = RerunIntervalEffect(interval)
    /\ UNCHANGED auxVars

\* changeDay, from the navigation buttons (disabled while loading); the viewed
\* date is kept within one day of the days the clock runs through.
changeDay(days) ==
    /\ ~loading
    /\ selectedDate + days >= 0 - 1
    /\ selectedDate + days <= MaxDay + 1
    /\ IsSet(weather) \/ ~IsSet(location) \/ weatherLoads < MaxWeatherLoads
    /\ selectedDate' = selectedDate + days
    /\ IF IsSet(location)
       THEN \E part \in LoadParts(selectedDate + days) :
               StartLoad(Val(location), selectedDate + days, part, weather)
       ELSE UNCHANGED <<loading, loadingWeather, error, loads, weatherLoads>>
    /\ UNCHANGED <<data, now, lastMark, weather, location, geo, compassVars, detVars, clockVars>>
    /\ interval' = RerunIntervalEffect(interval)
    /\ UNCHANGED auxVars

\* The interval callback: setData(prev => prev ? markNextPrayer(prev, selectedDate) : null)
MinuteTick ==
    /\ interval > 0
    /\ IF dataNull
       THEN UNCHANGED <<data, lastMark>>
       ELSE /\ data' = markNextPrayer(data, selectedDate, now)
            /\ lastMark' = Some(MarkRecord(data, selectedDate, now))
    /\ UNCHANGED <<selectedDate, now, shellVars, compassVars, detVars, clockVars>>
    /\ interval' = RerunIntervalEffect(interval)
    /\ UNCHANGED auxVars

\* Time passes.
ClockAdvance(t) ==
    /\ Later(now, t)
    /\ now' = t
    /\ UNCHANGED <<data, selectedDate, lastMark, shellVars, compassVars, detVars, viewVars>>
    /\ UNCHANGED auxVars

Init ==
    /\ data = FALLBACK_DATA
    /\ now \in { Clock(0, t) : t \in ClockTimes }
    /\ selectedDate = now.day
    /\ lastMark = Undefined
    /\ InitShell
    /\ InitCompassOn(FALSE)
    /\ InitDet
    /\ InitViews
    /\ InitAux

Next ==
    \/ MountUnsupported
    \/ MountRequest
    \/ \E loc \in GpsLocations : GeoSuccess(loc)
    \/ GeoError
    \/ \E i \in 1..Len(loads), parsed \in TextOutcomes : LoadSettles(i, parsed)
    \/ \E ok \in BOOLEAN : WeatherSettles(ok)
    \/ \E days \in {-1, 1} : changeDay(days)
    \/ MinuteTick
    \/ \E t \in Clocks : ClockAdvance(t)

Spec == Init /\ [][Next]_vars

\* ------------------------------------------------ the views' lifecycles, run
\* AppContent unmounts: the minute effect's cleanup clears its interval and
\* AnalogClock's cleanup cancels the frame whose id it holds. Promises still
\* pending call setState on an unmounted component, which changes nothing.
AppUnmount ==
    /\ geo \in {"requested", "settled"}
    /\ geo' = "gone"
    /\ interval' = ClearInterval(interval)
    /\ pendingFrames' = CancelAnimationFrame(pendingFrames, animationFrameId)
    /\ loads' = << >>
    /\ weatherLoads' = 0
    /\ UNCHANGED <<markVars, weather, loading, loadingWeather, error, location,
                   animationFrameId, frameNo, compassVars, detVars>>
    /\ UNCHANGED auxVars

\* updateTime, a scheduled animation-frame callback: setTime(new Date()) (display
\* only), then the next frame is requested and its id kept.
FrameCallback ==
    /\ frameNo < MaxFrames
    /\ \E id \in pendingFrames :
          pendingFrames' = RequestAnimationFrame(pendingFrames \ {id}, frameNo + 1)
    /\ animationFrameId' = frameNo + 1
    /\ frameNo' = frameNo + 1
    /\ UNCHANGED <<interval, appVars, compassVars, detVars>>
    /\ UNCHANGED auxVars

\* A deviceorientation event is delivered to the registered handler.
ViewSample(e) ==
    /\ listener > 0
    /\ Len(samples) < MaxViewSamples
    /\ LET f == handleOrientation(Filter, e)
       IN  /\ rawHeading' = f.raw
           /\ smoothHeading' = f.smooth
           /\ lastHeadingRef' = f.last
           /\ samples' = Append(samples, f.raw)
    /\ UNCHANGED <<isOpen, permissionGranted, needsPermission, compassError, listener,
                   requiresGrant, sessionNo, staleAtOpen, qiblaBearing>>
    /\ UNCHANGED <<appVars, detVars, viewVars>>
    /\ UNCHANGED auxVars

InitViewsSpec == InitAppIdle /\ InitCompass /\ InitDet /\ InitViews /\ InitAux

NextViews ==
    \/ MountUnsupported
    \/ MountRequest
    \/ GeoError
    \/ \E i \in 1..Len(loads), parsed \in TextOutcomes : LoadSettles(i, parsed)
    \/ MinuteTick
    \/ AppUnmount
    \/ FrameCallback
    \/ OpenCompass
    \/ CloseCompass
    \/ \E e \in OrientationEvents : ViewSample(e)
    \/ \E response \in {"granted", "denied", "throws"} : requestAccess(response)

SpecViews == InitViewsSpec /\ [][NextViews]_vars

\* ------------------------------------- fetchDailyIslamicData's retry loop, run
MAX_RETRIES == 3

\* How an awaited generateContent can end: with a JSON text ("ok"), with no text
\* ("empty", thrown inside the try), with a thrown error ("error"), or with a
\* thrown error that carries 429 in its message ("quota"), 429 as its status
\* alone ("status429"), or RESOURCE_EXHAUSTED ("exhausted").
FailureKinds == {"empty", "error", "quota", "status429", "exhausted"}

\* The error the catch block receives, its message as a sequence of words.
ThrownError(kind) ==
    CASE kind = "empty" ->
           [name |-> "Error", status |-> Undefined,
            message |-> <<"Empty", "response", "from", "Gemini">>]
      [] kind = "error" ->
           [name |-> "SyntaxError", status |-> Undefined,
            message |-> <<"Unexpected", "end", "of", "JSON", "input">>]
      [] kind = "quota" ->
           [name |-> "ApiError", status |-> Some(429),
            message |-> <<"got", "status:", "429", "Too", "Many", "Requests">>]
      [] kind = "status429" ->
           [name |-> "ApiError", status |-> Some(429),
            message |-> <<"Quota", "exceeded">>]
      [] kind = "exhausted" ->
           [name |-> "ApiError", status |-> Undefined,
            message |-> <<"code:", "RESOURCE_EXHAUSTED">>]

\* error.toString(): the name, then the message.
ErrorToString(err) == <<err.name>> \o err.message

IsQuotaFailureByMessage(kind) == Includes(ThrownError(kind).message, <<"429">>)

\* The catch block's test for a quota failure.
IsQuotaFailure(kind) ==
    LET err == ThrownError(kind)
    IN  \/ Includes(err.message, <<"429">>)
        \/ err.status = Some(429)
        \/ Includes(ErrorToString(err), <<"RESOURCE_EXHAUSTED">>)

BackoffDelayFixed(i) == 1000

\* delay(1000 * Math.pow(2, i))
BackoffDelay(i) == 1000 * 2^i

\* The return statement after the loop.
ReturnData ==
    /\ returned' = Some(FetchedData(Val(computed), retryParsed'))
    /\ retryPc' = "returned"

\* The awaited call resolves with a text that JSON.parse accepts: break.
AttemptSucceeds(p) ==
    /\ retryPc = "attempt"
    /\ attempt < MAX_RETRIES
    /\ retryParsed' = p
    /\ outcomes' = Append(outcomes, "ok")
    /\ ReturnData
    /\ UNCHANGED <<attempt, computed, waited>>
    /\ UNCHANGED <<appVars, compassVars, detVars, viewVars, sideVars>>

\* The try block throws: the catch block breaks on a quota failure, starts the
\* backoff delay when attempts remain, and otherwise lets the loop run out.
AttemptFails(kind) ==
    /\ retryPc = "attempt"
    /\ attempt < MAX_RETRIES
    /\ outcomes' = Append(outcomes, kind)
    /\ UNCHANGED <<retryParsed, computed, waited>>
    /\ IF IsQuotaFailure(kind)
       THEN /\ ReturnData
            /\ UNCHANGED attempt
       ELSE IF attempt < MAX_RETRIES - 1
       THEN /\ retryPc' = "delay"
            /\ UNCHANGED <<attempt, returned>>
       ELSE /\ attempt' = attempt + 1
            /\ ReturnData
    /\ UNCHANGED <<appVars, compassVars, detVars, viewVars, sideVars>>

\* The awaited delay resolves: i++ and the next pass of the loop.
DelayElapses ==
    /\ retryPc = "delay"
    /\ waited' = Append(waited, BackoffDelay(attempt))
    /\ attempt' = attempt + 1
    /\ retryPc' = "attempt"
    /\ UNCHANGED <<retryParsed, computed, outcomes, returned>>
    /\ UNCHANGED <<appVars, compassVars, detVars, viewVars, sideVars>>

\* The call has computed its schedule and enters the loop.
InitRetry ==
    /\ InitAppIdle
    /\ InitCompassOn(FALSE)
    /\ InitDet
    /\ InitViews
    /\ InitSide
    /\ retryPc = "attempt"
    /\ attempt = 0
    /\ retryParsed = Undefined
    /\ computed \in { Some(ComputedPart(date, times, now)) :
                         date \in (0 - 1)..(MaxDay + 1), times \in LibraryTimes }
    /\ outcomes = << >>
    /\ waited = << >>
    /\ returned = Undefined

NextRetry ==
    \/ \E p \in TextOutcomes \ {Undefined} : AttemptSucceeds(p)
    \/ \E kind \in FailureKinds : AttemptFails(kind)
    \/ DelayElapses

SpecRetry == InitRetry /\ [][NextRetry]_vars

\* ------------------------------------------------------------ calculateQibla
\* Numbers are fixed-point with four decimals; every product is rounded to the
\* nearest representable value, as each floating-point operation is.
Scale == 10000

RoundDiv(n, d) == (2 * n + d) \div (2 * d)

Mul(a, b) == RoundDiv(a * b, Scale)

\* Math.sin for 0, 0.5, ..., 90 degrees, rounded to four decimals.
SinTable ==
    <<
       0, 87, 175, 262, 349, 436, 523, 610, 698, 785, 872, 958,
       1045, 1132, 1219, 1305, 1392, 1478, 1564, 1650, 1736, 1822, 1908, 1994,
       2079, 2164, 2250, 2334, 2419, 2504, 2588, 2672, 2756, 2840, 2924, 3007,
       3090, 3173, 3256, 3338, 3420, 3502, 3584, 3665, 3746, 3827, 3907, 3987,
       4067, 4147, 4226, 4305, 4384, 4462, 4540, 4617, 4695, 4772, 4848, 4924,
       5000, 5075, 5150, 5225, 5299, 5373, 5446, 5519, 5592, 5664, 5736, 5807,
       5878, 5948, 6018, 6088, 6157, 6225, 6293, 6361, 6428, 6494, 6561, 6626,
       6691, 6756, 6820, 6884, 6947, 7009, 7071, 7133, 7193, 7254, 7314, 7373,
       7431, 7490, 7547, 7604, 7660, 7716, 7771, 7826, 7880, 7934, 7986, 8039,
       8090, 8141, 8192, 8241, 8290, 8339, 8387, 8434, 8480, 8526, 8572, 8616,
       8660, 8704, 8746, 8788, 8829, 8870, 8910, 8949, 8988, 9026, 9063, 9100,
       9135, 9171, 9205, 9239, 9272, 9304, 9336, 9367, 9397, 9426, 9455, 9483,
       9511, 9537, 9563, 9588, 9613, 9636, 9659, 9681, 9703, 9724, 9744, 9763,
       9781, 9799, 9816, 9833, 9848, 9863, 9877, 9890, 9903, 9914, 9925, 9936,
       9945, 9954, 9962, 9969, 9976, 9981, 9986, 9990, 9994, 9997, 9998, 10000,
       10000
    >>

\* Math.sin(toRad(.)) and Math.cos(toRad(.)) of an angle given in half degrees.
SinHalf(h) ==
    LET r == h % 720
    IN  IF r <= 180 THEN SinTable[r + 1]
        ELSE IF r <= 360 THEN SinTable[361 - r]
        ELSE IF r <= 540 THEN -SinTable[r - 359]
        ELSE -SinTable[721 - r]

CosHalf(h) == SinHalf(h + 180)

Sin(deg) == SinHalf(2 * deg)

Cos(deg) == CosHalf(2 * deg)

\* A floating-point result is a number, Some(v), or NaN.
NaN == Undefined

\* Math.sqrt: NaN for a negative argument, else the nearest root.
RECURSIVE SqrtBetween(_, _, _)
SqrtBetween(n, lo, hi) ==
    IF lo >= hi THEN lo
    ELSE LET mid == (lo + hi + 1) \div 2
         IN  IF (2 * mid - 1) * (2 * mid - 1) <= 4 * n
             THEN SqrtBetween(n, mid, hi)
             ELSE SqrtBetween(n, lo, mid - 1)

Sqrt(v) == IF v < 0 THEN NaN ELSE Some(SqrtBetween(v * Scale, 0, 2 * Scale))

\* toDeg(Math.atan2(y, x)) in whole degrees: the direction in (-180, 180] that
\* (x, y) points along; 0 for the origin; NaN when an argument is NaN.
Along(y, x, th) == x * Cos(th) + y * Sin(th)

Nearer(y, x, a, b) == IF Along(y, x, b) > Along(y, x, a) THEN b ELSE a

RECURSIVE NearestDirection(_, _, _, _)
NearestDirection(y, x, lo, hi) ==
    IF lo = hi THEN lo
    ELSE LET mid == (lo + hi) \div 2
         IN  Nearer(y, x, NearestDirection(y, x, lo, mid),
                          NearestDirection(y, x, mid + 1, hi))

Atan2Degrees(y, x) ==
    IF ~IsSet(y) \/ ~IsSet(x) THEN NaN
    ELSE IF Val(y) = 0 /\ Val(x) = 0 THEN Some(0)
    ELSE Some(Nearer(Val(y), Val(x), 180, NearestDirection(Val(y), Val(x), -179, 179)))

KAABA_LAT == 21
KAABA_LNG == 40

\* The bearing part of calculateQibla.
QiblaBearing(lat, lng) ==
    LET deltaLambda == KAABA_LNG - lng
        y == Mul(Sin(deltaLambda), Cos(KAABA_LAT))
        x == Mul(Cos(lat), Sin(KAABA_LAT))
             - Mul(Mul(Sin(lat), Cos(KAABA_LAT)), Cos(deltaLambda))
    IN  calculateQibla(Val(Atan2Degrees(Some(y), Some(x))))

\* Earth's radius in km.
R == 6371

\* The haversine term a; dLat / 2 and dLon / 2 are whole numbers of half degrees.
HaversineA(lat, lng) ==
    LET dLat == KAABA_LAT - lat
        dLon == KAABA_LNG - lng
    IN  Mul(SinHalf(dLat), SinHalf(dLat))
        + Mul(Mul(Mul(Cos(lat), Cos(KAABA_LAT)), SinHalf(dLon)), SinHalf(dLon))

\* Math.round(R * c) with c = 2 * atan2(sqrt(a), sqrt(1 - a)); pi is 355 / 113.
QiblaDistanceOf(a) ==
    LET c == Atan2Degrees(Sqrt(a), Sqrt(Scale - a))
    IN  IF IsSet(c) THEN Some(RoundDiv(R * 2 * Val(c) * 355, 113 * 180)) ELSE NaN

QiblaDistance(lat, lng) == QiblaDistanceOf(HaversineA(lat, lng))

\* The coordinates QiblaCompass is given.
Latitudes == {-90, -21, -6, 21, 51, 90}
Longitudes == {-180, -140, 0, 40, 107, 180}
Observers == [lat : Latitudes, lng : Longitudes]

\* The effect of lines 145-147: calculateQibla sets both states.
CalculateQiblaEffect ==
    /\ ~qiblaDone
    /\ qiblaBearing' = QiblaBearing(observer.lat, observer.lng)
    /\ distance' = QiblaDistance(observer.lat, observer.lng)
    /\ qiblaDone' = TRUE
    /\ UNCHANGED <<observer, isOpen, rawHeading, smoothHeading, lastHeadingRef,
                   permissionGranted, needsPermission, compassError, listener,
                   requiresGrant, samples, sessionNo, staleAtOpen>>
    /\ UNCHANGED <<appVars, detVars, viewVars, retryVars, calendarVars, dataNull>>

\* The parent renders QiblaCompass with other coordinates: calculateQibla is a
\* new callback, so its effect is due again.
ObserverMoves(o) ==
    /\ qiblaDone
    /\ o # observer
    /\ observer' = o
    /\ qiblaDone' = FALSE
    /\ UNCHANGED <<distance, compassVars, appVars, detVars, viewVars, retryVars,
                   calendarVars, dataNull>>

InitQibla ==
    /\ InitAppIdle /\ InitCompassOn(FALSE) /\ InitDet /\ InitViews /\ InitRetryIdle
    /\ InitCalendarIdle /\ dataNull = FALSE
    /\ observer \in Observers
    /\ distance = Some(0)
    /\ qiblaDone = FALSE

NextQibla ==
    \/ CalculateQiblaEffect
    \/ \E o \in Observers : ObserverMoves(o)

SpecQibla == InitQibla /\ [][NextQibla]_vars

\* ------------------------------------------------------------ MonthlyCalendar
MaxNav == 3

IsLeapYear(y) == y % 4 = 0 /\ (y % 100 # 0 \/ y % 400 = 0)

\* The number of days of month m (0..11) of year y.
DaysInMonth(y, m) ==
    IF m = 1 THEN (IF IsLeapYear(y) THEN 29 ELSE 28)
    ELSE IF m \in {3, 5, 8, 10} THEN 30
    ELSE 31

\* Date.prototype.setMonth(m) for m in -1..12 with the day of the month kept: a
\* month outside 0..11 carries into the year, and a day the month does not have
\* carries into the following month.
SetMonth(d, m) ==
    LET y == IF m < 0 THEN d.year - 1 ELSE IF m > 11 THEN d.year + 1 ELSE d.year
        mm == (m + 12) % 12
        dim == DaysInMonth(y, mm)
    IN  IF d.day <= dim THEN [year |-> y, month |-> mm, day |-> d.day]
        ELSE [year |-> IF mm = 11 THEN y + 1 ELSE y,
              month |-> (mm + 1) % 12,
              day |-> d.day - dim]

\* The updater of handlePrevMonth: d.setMonth(d.getMonth() - 1).
PrevMonthOf(prev) == SetMonth(prev, prev.month - 1)

\* The updater of handleNextMonth: d.setMonth(d.getMonth() + 1).
NextMonthOf(prev) == SetMonth(prev, prev.month + 1)

\* The days on which the calendar is opened.
Todays ==
    { d \in { [year |-> ym[1], month |-> ym[2], day |-> dd] :
                ym \in { <<2025, 11>>, <<2026, 0>>, <<2026, 2>>, <<2026, 3>>, <<2028, 0>> },
                dd \in {1, 15, 28, 29, 30, 31} } :
         d.day <= DaysInMonth(d.year, d.month) }

\* isOpen becomes true: the effect calls setViewDate(new Date()).
OpenCalendar(today) ==
    /\ ~calendarOpen
    /\ calendarOpen' = TRUE
    /\ viewDate' = today
    /\ monthTrail' = << >>
    /\ UNCHANGED <<appVars, compassVars, detVars, viewVars, retryVars, qiblaVars, dataNull>>

\* onClose: isOpen becomes false; viewDate is kept.
CloseCalendar ==
    /\ calendarOpen
    /\ calendarOpen' = FALSE
    /\ UNCHANGED <<viewDate, monthTrail>>
    /\ UNCHANGED <<appVars, compassVars, detVars, viewVars, retryVars, qiblaVars, dataNull>>

handlePrevMonth ==
    /\ calendarOpen
    /\ Len(monthTrail) < MaxNav
    /\ viewDate' = PrevMonthOf(viewDate)
    /\ monthTrail' = Append(monthTrail, [op |-> "prev", from |-> viewDate])
    /\ UNCHANGED calendarOpen
    /\ UNCHANGED <<appVars, compassVars, detVars, viewVars, retryVars, qiblaVars, dataNull>>

handleNextMonth ==
    /\ calendarOpen
    /\ Len(monthTrail) < MaxNav
    /\ viewDate' = NextMonthOf(viewDate)
    /\ monthTrail' = Append(monthTrail, [op |-> "next", from |-> viewDate])
    /\ UNCHANGED calendarOpen
    /\ UNCHANGED <<appVars, compassVars, detVars, viewVars, retryVars, qiblaVars, dataNull>>

InitCalendar ==
    /\ InitAppIdle /\ InitCompassOn(FALSE) /\ InitDet /\ InitViews /\ InitRetryIdle
    /\ InitQiblaIdle /\ dataNull = FALSE
    /\ calendarOpen = FALSE
    /\ viewDate \in Todays
    /\ monthTrail = << >>

NextCalendar ==
    \/ \E today \in Todays : OpenCalendar(today)
    \/ CloseCalendar
    \/ handlePrevMonth
    \/ handleNextMonth

SpecCalendar == InitCalendar /\ [][NextCalendar]_vars

\* ------------------------------------------------------------ selector claims
\* The reading of the last markNextPrayer call.
Marked == IsSet(lastMark)
MarkedToday == Marked /\ Val(lastMark).targetDate = Val(lastMark).now.day
MarkedOtherDay == Marked /\ Val(lastMark).targetDate # Val(lastMark).now.day
MarkMinutes == Val(lastMark).now.hours * 60 + Val(lastMark).now.minutes
Adjusted(i) == Val(lastMark).prayerMinutes[i]
Positions == 1..Len(data.prayers)
FlaggedNext(i) == data.prayers[i].isNext = Some(TRUE)
FlaggedNotNext(i) == data.prayers[i].isNext = Some(FALSE)
OnlyFlagged(k) == FlaggedNext(k) /\ \A j \in Positions \ {k} : FlaggedNotNext(j)
ExactlyOneNext == \E k \in Positions : OnlyFlagged(k)

\* The night prayers and the Maghrib entry as the claims name them.
NamedNight(p) ==
    \/ p.name = "Isha" \/ p.name = "Midnight" \/ p.name = "LastThird"
    \/ Includes(p.nameArabic, LABEL_ISHA)
    \/ Includes(p.nameArabic, LABEL_MIDNIGHT)
    \/ Includes(p.nameArabic, LABEL_LASTTHIRD)
NamedMaghrib(p) ==
    \/ p.name \in {"Maghrib", "maghrib", "MAGHRIB"}
    \/ Includes(p.nameArabic, LABEL_MAGHRIB)
MaghribPositions == { i \in Positions : NamedMaghrib(data.prayers[i]) }
ClockMinutes(time) == 60 * time[1] + time[2]
Boundary ==
    IF MaghribPositions = {} THEN Val(Val(lastMark).maghribMinutes)
    ELSE ClockMinutes(data.prayers[CHOOSE i \in MaghribPositions :
                                      \A j \in MaghribPositions : i <= j].time)

\* C1: whenever markNextPrayer last ran for a viewed date that was the current
\* day, on a non-empty schedule, the stored schedule has exactly one entry with
\* isNext = true and every other entry with isNext = false, after any sequence of
\* minute ticks and settled loads.
C1_ExactlyOneNextToday ==
    (MarkedToday /\ Len(data.prayers) > 0) => ExactlyOneNext

C1_Witness ==
    /\ MarkedToday /\ ~loading /\ geo = "settled"
    /\ Val(lastMark).now.day = 1
    /\ OnlyFlagged(9)

\* C2: when the viewed date is not the current calendar day, every entry of the
\* returned schedule has isNext = false, whatever the entry times and the clock.
C2_OtherDayFlagsNone ==
    MarkedOtherDay => \A i \in Positions : FlaggedNotNext(i)

C2_Witness ==
    /\ MarkedOtherDay
    /\ Len(data.prayers) >= 2
    /\ \E i \in Positions : ClockMinutes(data.prayers[i].time) > MarkMinutes
    /\ \A i \in Positions : FlaggedNotNext(i)

\* C3: viewing today with some entry whose adjusted minutes exceed the current
\* minutes, the flagged entry is the one with the smallest positive difference,
\* the lowest index among equals; for Maghrib 18:00, Isha 19:20, Midnight 23:45,
\* LastThird 01:15 at 20:00 it is Midnight.
C3_NearestAheadLowestIndex ==
    /\ (MarkedToday /\ \E j \in Positions : Adjusted(j) > MarkMinutes) =>
          \E k \in Positions :
             /\ OnlyFlagged(k)
             /\ Adjusted(k) > MarkMinutes
             /\ \A j \in Positions :
                   Adjusted(j) > MarkMinutes =>
                      \/ Adjusted(k) - MarkMinutes < Adjusted(j) - MarkMinutes
                      \/ Adjusted(k) = Adjusted(j) /\ k <= j
    /\ (/\ MarkedToday
        /\ MarkMinutes = 20 * 60
        /\ [i \in Positions |-> <<data.prayers[i].name, data.prayers[i].time>>]
              = << <<"Maghrib", <<18, 0>> >>, <<"Isha", <<19, 20>> >>,
                   <<"Midnight", <<23, 45>> >>, <<"LastThird", <<1, 15>> >> >>)
          => OnlyFlagged(3)

C3_Witness ==
    /\ MarkedToday
    /\ MarkMinutes = 20 * 60
    /\ Len(data.prayers) = 4
    /\ data.prayers[3].name = "Midnight" /\ FlaggedNext(3)
    /\ data.prayers[4].name = "LastThird" /\ FlaggedNotNext(4)
    /\ Adjusted(4) = 25 * 60 + 15

\* C4: an entry's minutes are increased by 1440 exactly when it is a night prayer
\* (by name or by an embedded night label) whose minutes are strictly below
\* Maghrib's; every other entry keeps its unadjusted minutes.
C4_NightAdjustment ==
    MarkedToday =>
       \A i \in Positions :
          LET p == data.prayers[i]
              plain == ClockMinutes(p.time)
          IN  IF NamedNight(p) /\ plain < Boundary
              THEN Adjusted(i) = plain + 1440
              ELSE Adjusted(i) = plain

C4_Witness ==
    /\ MarkedToday
    /\ MaghribPositions # {}
    /\ \E i \in Positions :
          NamedNight(data.prayers[i]) /\ Adjusted(i) = ClockMinutes(data.prayers[i].time) + 1440
    /\ \E i \in Positions :
          /\ NamedNight(data.prayers[i])
          /\ ClockMinutes(data.prayers[i].time) >= Boundary
          /\ Adjusted(i) = ClockMinutes(data.prayers[i].time)
    /\ \E i \in Positions :
          ~NamedNight(data.prayers[i]) /\ ClockMinutes(data.prayers[i].time) < Boundary

\* C5: viewing today with no entry whose adjusted minutes exceed the current
\* minutes (an entry at the current minute included), the entry at index 0 is
\* the one flagged next.
C5_WrapToIndexZero ==
    (MarkedToday /\ \A j \in Positions : Adjusted(j) <= MarkMinutes) => OnlyFlagged(1)

C5_Witness ==
    /\ MarkedToday
    /\ Len(data.prayers) >= 2
    /\ \A j \in Positions : Adjusted(j) <= MarkMinutes
    /\ Adjusted(2) = MarkMinutes
    /\ Adjusted(1) < MarkMinutes
    /\ OnlyFlagged(1)

\* C6: with no entry identified as Maghrib (by name in any case, or by label) the
\* night boundary is 1080 minutes, the call completes, and exactly one entry is
\* flagged when viewing today.
C6_DefaultBoundary ==
    (MarkedToday /\ MaghribPositions = {}) =>
       /\ Val(lastMark).maghribMinutes = Some(1080)
       /\ \A i \in Positions :
             LET p == data.prayers[i]
                 plain == ClockMinutes(p.time)
             IN  Adjusted(i) = IF NamedNight(p) /\ plain < 1080 THEN plain + 1440 ELSE plain
       /\ ExactlyOneNext

C6_Witness ==
    /\ MarkedToday
    /\ MaghribPositions = {}
    /\ Val(lastMark).maghribMinutes = Some(1080)
    /\ \E i \in Positions : NamedNight(data.prayers[i]) /\ Adjusted(i) = 1080
    /\ \E i \in Positions : NamedNight(data.prayers[i]) /\ Adjusted(i) = 1440 + 75
    /\ ExactlyOneNext

\* ------------------------------------------------------ heading filter claims
\* The correction the claims state, written out on (current, previous).
CorrectedDelta(cur, prev) ==
    IF cur - prev < -180 THEN cur - prev + 360
    ELSE IF cur - prev > 180 THEN cur - prev - 360
    ELSE cur - prev

RECURSIVE SumCorrected(_, _)
\* Sum of the corrected deltas of a sample sequence, the first taken against prev.
SumCorrected(seq, prev) ==
    IF seq = << >> THEN 0
    ELSE CorrectedDelta(Head(seq), prev) + SumCorrected(Tail(seq), Head(seq))

\* C7: every processed sample adds to smoothHeading exactly currentRaw - previousRaw
\* corrected by +360 below -180 and -360 above 180; the amount lies in [-180, 180]
\* and is congruent to currentRaw - previousRaw modulo 360; after reset the samples
\* 10, 350 move the accumulator by -20 on the second sample.
C7_DeltaIsShortestPath ==
    [][ Len(samples') = Len(samples) + 1 =>
          LET added == smoothHeading' - smoothHeading
              diff == rawHeading' - lastHeadingRef
          IN  /\ added = CorrectedDelta(rawHeading', lastHeadingRef)
              /\ added \in -180..180
              /\ (added - diff) % 360 = 0
              /\ (samples' = <<10, 350>> => added = -20) ]_vars

C7_Witness == samples = <<10, 350>> /\ smoothHeading = -10 /\ lastHeadingRef = 350

\* C8: smoothHeading is never reduced modulo 360: it equals the plain sum of the
\* corrected deltas of the samples since the last reset, so after 90, 180, 270, 0, 90
\* it is 450.
C8_AccumulatorUnwrapped ==
    /\ smoothHeading = SumCorrected(samples, 0)
    /\ (samples = <<90, 180, 270, 0, 90>> => smoothHeading = 450)

C8_Witness == samples = <<90, 180, 270, 0, 90>> /\ smoothHeading = 450 /\ rawHeading = 90

\* C9: every step that takes isOpen from false to true leaves lastHeadingRef,
\* smoothHeading and rawHeading at 0 with no sample of the new session processed,
\* and while the compass is open with no sample processed they are still 0.
C9_OpenResetsFilter ==
    /\ [](isOpen /\ samples = << >> =>
            lastHeadingRef = 0 /\ smoothHeading = 0 /\ rawHeading = 0)
    /\ [][ ~isOpen /\ isOpen' =>
            /\ lastHeadingRef' = 0 /\ smoothHeading' = 0 /\ rawHeading' = 0
            /\ samples' = << >> ]_vars

C9_Witness ==
    /\ isOpen /\ sessionNo = 2 /\ staleAtOpen
    /\ samples = << >>
    /\ lastHeadingRef = 0 /\ smoothHeading = 0 /\ rawHeading = 0

\* C10: two runs of the filter that pass through a reset and are then fed the same
\* samples hold the same smoothHeading after every sample, whatever each run was
\* fed before the reset.
C10_DeterministicAfterReset ==
    phase = "synced" => samples = samplesB /\ smoothHeading = runB.smooth

C10_Witness ==
    /\ phase = "synced" /\ preDiffered
    /\ Len(samples) = 2 /\ smoothHeading # 0 /\ smoothHeading = runB.smooth

\* ------------------------------------------------ sensor source and permission
\* C11: a processed event that carries webkitCompassHeading stores that value as the
\* raw heading, for every value including 0; an event without it whose alpha is
\* non-null stores abs(alpha - 360), whether or not absolute is set.
C11_CompassHeadingFieldWins ==
    [][ \A e \in OrientationEvents :
          OrientationSample(e) =>
            IF IsSet(e.webkitCompassHeading)
            THEN rawHeading' = Val(e.webkitCompassHeading)
            ELSE IsSet(e.alpha) => rawHeading' = Abs(Val(e.alpha) - 360) ]_vars

\* C12: every raw heading stored and fed to the filter lies in [0, 360), the events
\* delivered all having webkitCompassHeading and alpha in [0, 360) or absent.
C12_RawHeadingInRange ==
    /\ rawHeading \in 0..359
    /\ lastHeadingRef \in 0..359
    /\ \A i \in 1..Len(samples) : samples[i] \in 0..359

\* The permission state the component is in, read off its three state fields:
\* granted once permissionGranted is set, denied once a request has failed (error
\* holds the refusal), needs-permission while only needsPermission is set.
PermissionState ==
    IF permissionGranted THEN "granted"
    ELSE IF IsSet(compassError) THEN "denied"
    ELSE IF needsPermission THEN "needs-permission"
    ELSE "unknown"

AllowedPermissionMoves ==
    { <<"unknown", "needs-permission">>, <<"unknown", "granted">>,
      <<"needs-permission", "granted">>, <<"needs-permission", "denied">> }

\* The permission overlay replaces the instructions while a grant is outstanding.
PermissionOverlayShown == needsPermission /\ ~permissionGranted

\* The message texts of the rendered panel (overlay or instructions).
RenderedMessages ==
    IF PermissionOverlayShown
    THEN {"Izin sensor diperlukan untuk menjalankan kompas."}
    ELSE {"Putar HP Anda hingga jarum emas sejajar dengan panah merah di atas."}

\* C13: the permission state changes only along unknown -> needs-permission,
\* unknown -> granted, needs-permission -> granted and needs-permission -> denied;
\* denied is never left, whatever happens next (another requestAccess included);
\* and in the denied state the refusal is among the messages shown to the user.
C13_PermissionStateMachine ==
    /\ [][ PermissionState' # PermissionState =>
             <<PermissionState, PermissionState'>> \in AllowedPermissionMoves ]_vars
    /\ [][ PermissionState = "denied" => PermissionState' = "denied" ]_vars
    /\ [](PermissionState = "denied" => Val(compassError) \in RenderedMessages)

\* C14: in every state dialRotation is minus the accumulated heading and
\* needleRotation is qiblaBearing minus the accumulated heading (the sum of the
\* corrected deltas since the last reset), so needleRotation - dialRotation is
\* qiblaBearing after any sequence of samples and resets.
C14_NeedleKeepsBearing ==
    LET accumulatedHeading == SumCorrected(samples, 0)
    IN  /\ smoothHeading = accumulatedHeading
        /\ dialRotation = -accumulatedHeading
        /\ needleRotation = qiblaBearing - accumulatedHeading
        /\ needleRotation - dialRotation = qiblaBearing

C14_Witness ==
    /\ sessionNo = 2 /\ staleAtOpen
    /\ smoothHeading = 450 /\ qiblaBearing = 295
    /\ dialRotation = -450 /\ needleRotation = -155

\* ------------------------------------------------------ callback sources
AppMounted == geo \in {"requested", "settled"}

\* C15: while the compass is closed no orientation listener is registered and no
\* step changes rawHeading, lastHeadingRef or smoothHeading; while AppContent (and
\* with it the clock) is not mounted no animation-frame callback is scheduled, none
\* runs, and no minute interval is active; and there is never more than one
\* orientation listener or more than one minute interval.
C15_SourcesStopWithViews ==
    /\ [](~isOpen => listener = 0)
    /\ [][ ~isOpen /\ ~isOpen' =>
             UNCHANGED <<rawHeading, lastHeadingRef, smoothHeading>> ]_vars
    /\ [](~AppMounted => pendingFrames = {} /\ interval = 0)
    /\ [][ ~AppMounted /\ ~AppMounted' => frameNo' = frameNo /\ data' = data ]_vars
    /\ [](listener <= 1 /\ interval <= 1)

C15_Witness ==
    /\ geo = "gone" /\ frameNo >= 2 /\ IsSet(lastMark)
    /\ pendingFrames = {} /\ interval = 0
    /\ ~isOpen /\ sessionNo >= 1 /\ Len(samples) >= 1 /\ rawHeading # 0
    /\ listener = 0

\* ------------------------------------------------------ flags and viewed day
CarriesNextFlag == \E i \in 1..Len(data.prayers) : data.prayers[i].isNext = Some(TRUE)

\* C16: every step that changes the schedule, and every navigation step that
\* changes the viewed day, recomputes the flags at once for the new viewed day; so
\* a displayed schedule that carries a next flag never carries one computed for a
\* day other than selectedDate.
C16_FlagsFollowViewedDay ==
    /\ [][ data' # data =>
             IsSet(lastMark') /\ Val(lastMark').targetDate = selectedDate' ]_vars
    /\ [][ geo = "settled" /\ selectedDate' # selectedDate =>
             IsSet(lastMark') /\ Val(lastMark').targetDate = selectedDate' ]_vars
    /\ [](CarriesNextFlag => Val(lastMark).targetDate = selectedDate)

\* ------------------------------------------------------ location fallback
\* The step started exactly one load, for today and for the location it set.
InitialLoadStarted ==
    /\ IsSet(location')
    /\ Len(loads') = Len(loads) + 1
    /\ loads'[Len(loads')].loc = Val(location')
    /\ loads'[Len(loads')].date = now.day
    /\ selectedDate' = now.day
    /\ loading'

\* C17: when geolocation is unsupported or the position request fails or is denied,
\* location becomes DEFAULT_LOCATION; on success it becomes the reported position;
\* in each case that step starts exactly one schedule load, for today and with
\* that location; before the outcome there is no location and no load, and the
\* mount effect settles only once.
C17_FallbackLocationUsed ==
    /\ [][ (MountUnsupported \/ GeoError) =>
             location' = Some(DEFAULT_LOCATION) /\ InitialLoadStarted ]_vars
    /\ [][ \A loc \in GpsLocations :
             GeoSuccess(loc) => location' = Some(loc) /\ InitialLoadStarted ]_vars
    /\ [][ geo # geo' => geo # "settled" ]_vars
    /\ [](geo \in {"unmounted", "requested"} => ~IsSet(location) /\ loads = << >>)
    /\ [](geo = "settled" => IsSet(location))

C17_Witness ==
    /\ geo = "settled" /\ location = Some(DEFAULT_LOCATION)
    /\ Len(loads) = 1 /\ loads[1].loc = DEFAULT_LOCATION /\ loads[1].date = now.day
    /\ loading
    /\ selectedDate = now.day /\ data = FALLBACK_DATA

\* ------------------------------------------------------------ retry loop
\* What any finished call satisfies: at most MAX_RETRIES attempts, only the last
\* of which can have succeeded; the computed schedule is returned, with the
\* parsed city and quote of the successful attempt or else the static fallback.
RetryReturnsSchedule ==
    /\ Len(outcomes) <= MAX_RETRIES /\ attempt <= MAX_RETRIES
    /\ retryPc = "returned" =>
         LET n == Len(outcomes)
             result == Val(returned)
         IN  /\ n >= 1
             /\ \A k \in 1..(n - 1) : outcomes[k] # "ok"
             /\ result.prayers = Val(computed).prayers
             /\ result.gregorianDate = Val(computed).gregorianDate
             /\ result.hijri = Val(computed).hijri
             /\ IF outcomes[n] = "ok"
                THEN /\ result.city = Val(retryParsed).city
                     /\ result.quote = Val(retryParsed).quote
                ELSE /\ result.city = fallbackCity
                     /\ result.quote = fallbackQuote

\* Steps left before the call returns: two per remaining attempt, one less while
\* a delay is being awaited.
RetryMeasure ==
    IF retryPc = "returned" THEN 0
    ELSE 2 * (MAX_RETRIES - attempt) - (IF retryPc = "delay" THEN 1 ELSE 0)

\* The call always has a next step until it returns, and each step brings the
\* return nearer.
RetryTerminates ==
    /\ [](retryPc \in {"attempt", "delay"} => RetryMeasure > 0 /\ ENABLED NextRetry)
    /\ [][ RetryMeasure' < RetryMeasure ]_vars

\* The delays awaited so far: 1000 * 2^i after failed attempt i, for failed
\* attempts in `counted`.
WaitsFollow(counted) ==
    LET due == { k \in 1..Len(outcomes) : k <= MAX_RETRIES - 1 /\ outcomes[k] \in counted }
    IN  retryPc = "returned" =>
          /\ Len(waited) = Cardinality(due)
          /\ \A k \in due : k <= Len(waited) /\ waited[k] = 1000 * 2^(k - 1)

\* C18 as stated: at most 3 attempts; after every failed attempt i (i = 0, 1) a
\* wait of 1000 * 2^i ms, none after the last; the call terminates and returns the
\* computed schedule with the parsed city and quote or the static fallback.
C18_WaitAfterEveryFailure ==
    /\ []RetryReturnsSchedule
    /\ RetryTerminates
    /\ []WaitsFollow(FailureKinds)

\* C18, amended: as stated, except that the wait follows only a failed attempt
\* that is not a quota failure; a quota failure is the last attempt and no wait
\* follows it.
C18_WaitAfterRetriedFailure ==
    /\ []RetryReturnsSchedule
    /\ RetryTerminates
    /\ []WaitsFollow({ kind \in FailureKinds : ~IsQuotaFailure(kind) })
    /\ [](\A k \in 1..Len(outcomes) :
             (outcomes[k] # "ok" /\ IsQuotaFailure(outcomes[k])) => k = Len(outcomes))

C18_Witness ==
    /\ retryPc = "returned"
    /\ outcomes = <<"error", "empty", "ok">>
    /\ waited = <<1000, 2000>>
    /\ Val(returned).city = "Jakarta Selatan, Indonesia"

\* ------------------------------------------------------------ weather
\* What WeatherWidget renders for its props.
WeatherWidget ==
    IF loadingWeather THEN "skeleton"
    ELSE IF ~IsSet(weather) THEN "nothing"
    ELSE "card"

\* C19: a weather fetch that fails leaves weather as it was (null when no fetch
\* has succeeded), clears loadingWeather in the same step so that the widget shows
\* nothing, sets no error and touches neither the schedule nor the pending
\* schedule load; the completion of a schedule load neither reads nor writes the
\* weather fields, whether the weather request is pending, failed or done.
C19_WeatherFailureIsQuiet ==
    /\ [][ WeatherSettles(FALSE) =>
             /\ weather' = weather
             /\ ~loadingWeather'
             /\ (~IsSet(weather) => WeatherWidget' = "nothing")
             /\ error' = error
             /\ UNCHANGED <<data, lastMark, selectedDate, loading, loads>> ]_vars
    /\ [][ Len(loads') < Len(loads) =>
             /\ UNCHANGED <<weather, loadingWeather, weatherLoads>>
             /\ ~loading' /\ IsSet(lastMark')
             /\ Val(lastMark').targetDate = selectedDate ]_vars
    /\ [](weatherLoads = 0 /\ geo = "settled" => ~loadingWeather)

C19_Witness ==
    /\ geo = "settled" /\ weatherLoads = 0
    /\ ~IsSet(weather) /\ ~loadingWeather /\ WeatherWidget = "nothing"
    /\ ~IsSet(error)
    /\ ~loading /\ loads = << >> /\ IsSet(lastMark) /\ data.city = "Jakarta Selatan, Indonesia"

\* ------------------------------------------------------------ schedule shape
PrayerNameOrder ==
    <<"Fajr", "Shuruq", "Duha", "Dhuhr", "Asr", "Maghrib", "Isha", "Midnight", "LastThird">>

NamesOf(prayers) == [i \in 1..Len(prayers) |-> prayers[i].name]

\* C20: every schedule that reaches markNextPrayer -- the displayed one, which the
\* minute tick passes back in, FALLBACK_DATA, and the one each pending call of
\* fetchDailyIslamicData has built, whatever the text provider then answers --
\* names Fajr, Shuruq, Duha, Dhuhr, Asr, Maghrib, Isha, Midnight, LastThird in that
\* order, each once.
C20_NineNamesInOrder ==
    /\ NamesOf(data.prayers) = PrayerNameOrder
    /\ NamesOf(FALLBACK_DATA.prayers) = PrayerNameOrder
    /\ \A i \in 1..Len(loads) :
          IsSet(loads[i].part) =>
             \A parsed \in TextOutcomes :
                NamesOf(FetchedData(Val(loads[i].part), parsed).prayers) = PrayerNameOrder

C20_Witness ==
    /\ ~loading /\ IsSet(lastMark)
    /\ data.city = fallbackCity
    /\ data.prayers[6].name = "Maghrib" /\ data.prayers[6].time = <<21, 5>>
    /\ Len(data.prayers) = 9

\* ------------------------------------------------------------ calculateQibla claims
\* C21: for every observer with latitude in [-90, 90] and longitude in
\* [-180, 180], calculateQibla yields a bearing in [0, 360) and a distance >= 0.
C21_BearingAndDistanceInRange ==
    qiblaDone =>
        /\ 0 <= qiblaBearing /\ qiblaBearing < 360
        /\ IsSet(distance) /\ Val(distance) >= 0

C21_Witness ==
    /\ qiblaDone
    /\ observer = [lat |-> -6, lng |-> 107]
    /\ Abs(qiblaBearing - 295) <= 1
    /\ IsSet(distance) /\ Abs(Val(distance) - 7900) <= 222

\* ------------------------------------------------------------ Hijri date claims
\* The Hijri date the rule gives for a viewed day at a clock reading, with
\* Maghrib taken from the displayed schedule.
HijriByRule(date, nw, prayers) ==
    getHijriDataLocally(
        IF IsToday(date, nw) /\ nw.hours * 60 + nw.minutes >= MaghribMinutes(prayers)
        THEN date + 1 ELSE date)

\* A minute tick has refreshed the display of a schedule that was loaded.
TickRefreshedLoaded ==
    /\ loads' = loads
    /\ lastMark' # lastMark
    /\ ~loading'
    /\ ~IsSet(error')

\* C22: once the display is refreshed, the Hijri date shown is the one of the
\* following Gregorian day when the viewed day is today and the clock is at or
\* past today's Maghrib, and the one of the viewed day otherwise.
C22_HijriAdvancesAtMaghrib ==
    [][TickRefreshedLoaded =>
          data'.hijri = HijriByRule(selectedDate', now', data'.prayers)]_vars

\* C23: after a reset and any sequence of processed samples, rawHeading equals
\* lastHeadingRef (previousRaw of the next sample) and smoothHeading is congruent
\* to it modulo 360: the accumulator points the way the last raw sample does.
C23_AccumulatorPointsAtLastRaw ==
    /\ rawHeading = lastHeadingRef
    /\ (smoothHeading - lastHeadingRef) % 360 = 0

C23_Witness ==
    /\ Len(samples) >= 2
    /\ rawHeading = lastHeadingRef
    /\ smoothHeading < 0
    /\ smoothHeading # lastHeadingRef - 360

\* C24: whenever the compass is open and permission is granted, an orientation
\* listener is registered, whether no grant is required or requestAccess was
\* answered 'granted'.
C24_ListenerWhenGranted ==
    isOpen /\ permissionGranted => listener > 0

\* ------------------------------------------------------------ selector claims, continued
\* Entry i was moved to the next day by the last call, and the index the scan of
\* that call ended with, before the wrap.
WasAdjusted(i) == Adjusted(i) # ClockMinutes(data.prayers[i].time)
ScannedIndex ==
    ScanPrayers(data.prayers, 1, MarkMinutes, Val(Val(lastMark).maghribMinutes),
                [nextPrayerIndex |-> -1, minDiff |-> Undefined]).nextPrayerIndex

\* C25: every entry adjusted by +1440 has adjusted minutes >= 1440, above any
\* current minutes-since-midnight (0..1439); an adjusted entry is flagged next
\* only when no unadjusted entry is strictly ahead of the current time; and with
\* at least one adjusted entry the scan finds an entry, so the wrap to index 0 is
\* not taken.
C25_AdjustedEntriesAreAhead ==
    MarkedToday =>
       /\ MarkMinutes \in 0..1439
       /\ \A i \in Positions :
             WasAdjusted(i) => Adjusted(i) >= 1440 /\ Adjusted(i) > MarkMinutes
       /\ \A k \in Positions :
             FlaggedNext(k) /\ WasAdjusted(k) =>
                ~\E j \in Positions : ~WasAdjusted(j) /\ Adjusted(j) > MarkMinutes
       /\ (\E i \in Positions : WasAdjusted(i)) => ScannedIndex # -1

C25_Witness ==
    /\ MarkedToday
    /\ \E k \in Positions :
          /\ WasAdjusted(k) /\ OnlyFlagged(k)
          /\ \E j \in Positions : ~WasAdjusted(j) /\ Adjusted(j) = MarkMinutes
    /\ ScannedIndex # -1

\* ------------------------------------------------------------ loading claims
\* No schedule load is awaited and the mount effect has started the first one.
Quiescent == geo = "settled" /\ ~loading

\* A minute tick or a clock reading changed the display while loads stood still.
DisplayRewritten == loads' = loads /\ data' # data

\* A schedule load completed.
LoadCompleted == Len(loads') < Len(loads)

\* C26: at most one schedule load is in flight (loading is true from the start
\* until the first load completes, and navigation is disabled while it is
\* true); the in-flight load is for selectedDate; a completed load installs its
\* own result with flags from markNextPrayer; a minute tick rewrites flags only,
\* so once no load is in flight the display is the result of the load started
\* last, flagged by markNextPrayer for the viewed day.
C26_OneLoadAtATime ==
    /\ [](Len(loads) <= 1)
    /\ [](geo \in {"unmounted", "requested"} => loading)
    /\ [](loads # << >> => loading /\ loads[1].date = selectedDate)
    /\ [](Quiescent =>
            /\ loads = << >>
            /\ IsSet(lastMark)
            /\ data = markNextPrayer(data, selectedDate, Val(lastMark).now)
            /\ IF IsSet(error)
               THEN ClearFlags(data) = ClearFlags(FALLBACK_DATA)
               ELSE data.gregorianDate = GregorianLatin(selectedDate))
    /\ [][LoadCompleted =>
             \E parsed \in TextOutcomes :
                data' = markNextPrayer(
                           IF IsSet(loads[1].part)
                           THEN FetchedData(Val(loads[1].part), parsed)
                           ELSE FALLBACK_DATA,
                           selectedDate, now)]_vars
    /\ [][DisplayRewritten => ClearFlags(data') = ClearFlags(data)]_vars

C26_Witness ==
    /\ Quiescent
    /\ selectedDate = 1
    /\ ~IsSet(error)
    /\ data.gregorianDate = GregorianLatin(1)
    /\ Val(lastMark).now.day = 1
    /\ \E k \in Positions : FlaggedNext(k)

\* Two schedules that differ in their isNext flags at most.
SameButFlags(a, b) ==
    /\ Len(a.prayers) = Len(b.prayers)
    /\ \A i \in 1..Len(a.prayers) :
          /\ a.prayers[i].name = b.prayers[i].name
          /\ a.prayers[i].nameArabic = b.prayers[i].nameArabic
          /\ a.prayers[i].time = b.prayers[i].time
    /\ a.gregorianDate = b.gregorianDate
    /\ a.hijri = b.hijri
    /\ a.city = b.city
    /\ a.quote = b.quote

\* C27: markNextPrayer changes the isNext flags only: the entries keep their
\* order, name, nameArabic and time and every other field of the DailyData is
\* kept; applied again at the same clock reading and viewed date it returns what
\* it returned the first time.
C27_OnlyFlagsChange ==
    /\ [][lastMark' # lastMark => SameButFlags(data, data')]_vars
    /\ [](Marked =>
            markNextPrayer(data, Val(lastMark).targetDate, Val(lastMark).now) = data)

C27_Witness ==
    /\ MarkedToday
    /\ Len(data.prayers) = 2
    /\ data.prayers[1].time # data.prayers[2].time
    /\ OnlyFlagged(2)
    /\ data.quote = FALLBACK_DATA.quote
    /\ data.hijri = FALLBACK_DATA.hijri

\* ------------------------------------------------------------ render claims
\* The branch of AppContent's render that shows the body of the page.
ViewBranch ==
    IF loading /\ dataNull THEN "spinner"
    ELSE IF ~dataNull THEN "schedule"
    ELSE "retry"

\* A schedule load failed: loadData's catch block ran.
LoadFailed == Len(loads') < Len(loads) /\ IsSet(error') /\ ~IsSet(loads[1].part)

\* C28: data is never null: it starts as FALLBACK_DATA and a successful load, a
\* failed load and a minute tick all store an object; a failed load shows
\* FALLBACK_DATA with the error message set and loading cleared, and the render
\* never takes the error branch with 'Coba Lagi'.
C28_DataNeverNull ==
    /\ [](~dataNull)
    /\ [](geo = "unmounted" => data = FALLBACK_DATA)
    /\ [](ViewBranch = "schedule")
    /\ [][LoadFailed =>
             /\ ~dataNull'
             /\ ClearFlags(data') = ClearFlags(FALLBACK_DATA)
             /\ data' = markNextPrayer(FALLBACK_DATA, selectedDate, now)
             /\ error' = Some("Gagal memuat data jadwal sholat. Menggunakan data fallback.")
             /\ ~loading']_vars

C28_Witness ==
    /\ Quiescent
    /\ IsSet(error)
    /\ ~dataNull
    /\ ClearFlags(data) = ClearFlags(FALLBACK_DATA)
    /\ ViewBranch = "schedule"
    /\ interval > 0

\* ------------------------------------------------------------ calendar claims
\* The calendar month a date lies in, counted from year 0.
MonthIndex(d) == 12 * d.year + d.month

\* The last button pressed, and the one before it.
LastNav == monthTrail[Len(monthTrail)]
NavBeforeLast == monthTrail[Len(monthTrail) - 1]

\* C29: handleNextMonth moves the viewed month forward by exactly one calendar
\* month and handlePrevMonth backward by exactly one, for every viewDate, days
\* 29-31 included; handleNextMonth followed by handlePrevMonth shows the month
\* it started from.
C29_MonthStepsByOne ==
    /\ (monthTrail # << >> /\ LastNav.op = "next") =>
          MonthIndex(viewDate) = MonthIndex(LastNav.from) + 1
    /\ (monthTrail # << >> /\ LastNav.op = "prev") =>
          MonthIndex(viewDate) = MonthIndex(LastNav.from) - 1
    /\ (Len(monthTrail) >= 2 /\ NavBeforeLast.op = "next" /\ LastNav.op = "prev") =>
          MonthIndex(viewDate) = MonthIndex(NavBeforeLast.from)

\* ------------------------------------------------------------ quota claims
\* The failures that are quota failures: 429 in the message, 429 as the status,
\* or RESOURCE_EXHAUSTED.
QuotaKinds == {"quota", "status429", "exhausted"}

\* C30: a quota failure of the text provider ends the retry loop at once: the
\* call returns in the step in which the failure is caught, with no wait and no
\* attempt after it, and returns the fallback city and quote together with the
\* computed schedule.
C30_QuotaFailureEndsLoop ==
    /\ [][\A kind \in QuotaKinds :
             outcomes' = Append(outcomes, kind) =>
                /\ retryPc' = "returned"
                /\ waited' = waited
                /\ attempt' = attempt
                /\ Val(returned').city = fallbackCity
                /\ Val(returned').quote = fallbackQuote
                /\ Val(returned').prayers = Val(computed).prayers
                /\ Val(returned').gregorianDate = Val(computed).gregorianDate
                /\ Val(returned').hijri = Val(computed).hijri]_vars
    /\ [](\A k \in 1..Len(outcomes) :
             outcomes[k] \in QuotaKinds =>
                /\ k = Len(outcomes)
                /\ retryPc = "returned"
                /\ Len(waited) = k - 1)

C30_Witness ==
    /\ retryPc = "returned"
    /\ outcomes = <<"error", "status429">>
    /\ attempt = 1
    /\ waited = <<1000>>
    /\ Val(returned).city = fallbackCity

====
